---- MODULE Spec2Model ----
(***************************************************************************)
(* Frame-driven interpolation engine of ui_classes.py: the frame counter   *)
(* (Frame), the progress bar (Bar), the action sequencer (ObjectAnimation) *)
(* and the grow transition (Transition), with their per-frame passes.      *)
(*                                                                         *)
(* Numbers.  Bar values are Python floats; the model keeps them as exact   *)
(* integers counted in units of 1/Scale, so that the step of one frame     *)
(* (1/display_fps * time_to_use) is one unit and no rounding is modelled.  *)
(* Object geometry and transition sizes are Python ints.                   *)
(***************************************************************************)
EXTENDS Integers, Sequences, FiniteSets, TLC

\* ---------------------------------------------------------------- bounds
\* The host loop is cut off after MaxFrame ticks.
MaxFrame == 4
\* Upper end of a bar's value_range, in model units.
MaxValue == 2
\* modify_value is called with deltas in -MaxDelta..MaxDelta.
MaxDelta == 2
\* start_transition is not called on a list of MaxRunning entries.
MaxRunning == 3
\* An action_sequence holds at most MaxActions actions.
MaxActions == 2
\* Frame.increase is called with integers in -MaxIncrease..MaxIncrease.
MaxIncrease == 2

\* ------------------------------------------------------- program constants
DisplayFps == 60
TimeToUse == 3
\* Model units per unit of bar value: one frame's step is exactly one unit.
Scale == DisplayFps \div TimeToUse

Min2(a, b) == IF a < b THEN a ELSE b
Max2(a, b) == IF a > b THEN a ELSE b
Abs(a) == IF a < 0 THEN -a ELSE a

\* A dict: a function on its set of keys.
EmptyDict == [k \in {} |-> 0]
DictPut(d, key, val) == [k \in DOMAIN d \cup {key} |-> IF k = key THEN val ELSE d[k]]
DictPop(d, key) == [k \in DOMAIN d \ {key} |-> d[k]]

\* x in list, and list.remove(x) for entries compared by identity.
InList(list, e) == \E i \in DOMAIN list : list[i] = e
RECURSIVE RemoveFirst(_, _)
RemoveFirst(list, e) ==
  IF list = <<>> THEN list
  ELSE IF Head(list) = e THEN Tail(list)
       ELSE <<Head(list)>> \o RemoveFirst(Tail(list), e)

VARIABLES
  frame,                  \* Frame._frame
  frame_call,             \* history: the host's last call on Frame and its outcome
  value_range,            \* Bar.value_range of each bar (fixed at construction)
  display_range,          \* Bar.display_range of each bar: <<bottom, top>>
  bar_starting_frame,     \* Bar.starting_frame of each bar
  moving_bars,            \* Bar.moving_bars: bar id -> [goal, set_bottom]
  retarget,               \* history: the last animated re-targeting of a pending edge
  last_call,              \* history: the host's last call and the bar's state before it
  transitions,            \* the fields of each Transition instance
  tr_running_animations,  \* Transition.running_animations (a list)
  tr_advanced,            \* history: the transitions the last pass advanced, in order
  tr_fired,               \* history: the callbacks the last pass invoked, in order
  animations,             \* the fields of each ObjectAnimation instance
  objects,                \* the geometry of each animated object
  anim_running_animations, \* ObjectAnimation.running_animations (a list)
  anim_raised,            \* the exception the last call raised to the host
  anim_call,              \* history: the host's last call and whether the sequencer was registered
  anim_updated,           \* host loop: update_animations has run in this frame
  anim_executed           \* history: per sequencer, the indices of the actions executed since
                          \* construction or the last reset(), in the order of first execution

frame_vars == <<frame, frame_call>>
bar_vars == <<value_range, display_range, bar_starting_frame, moving_bars, retarget, last_call>>
tr_vars == <<transitions, tr_running_animations, tr_advanced, tr_fired>>
anim_vars == <<animations, objects, anim_running_animations, anim_raised, anim_call, anim_updated,
               anim_executed>>
vars == <<frame_vars, bar_vars, tr_vars, anim_vars>>

\* ------------------------------------------------------------------ Frame
\* A Python value handed to Frame: its type and, for a number, its value.
PyInt(n) == [type |-> "int", v |-> n]
PyNone == [type |-> "NoneType", v |-> 0]
\* isinstance(amount, int): bool is a subclass of int.
IsInt(amount) == amount.type \in {"int", "bool"}

\* The arguments of Frame.increase: the integers, True, and non-integers
\* (1.0, "1", None).
FrameIntegers == { PyInt(n) : n \in (-MaxIncrease)..MaxIncrease } \cup {[type |-> "bool", v |-> 1]}
FrameNonIntegers == { [type |-> "float", v |-> 1], [type |-> "str", v |-> 1], PyNone }

\* Frame.increase with the non-integer amount added as it comes.
increase_unchecked(amount) ==
  [frame |-> frame + amount.v, returned |-> PyInt(frame + amount.v), raised |-> "none"]

\* Frame.increase: the new counter, the value returned and the exception
\* raised.  The else branch calls NotImplemented, which is not callable.
increase(amount) ==
  IF IsInt(amount)
  THEN [frame |-> frame + amount.v, returned |-> PyInt(frame + amount.v), raised |-> "none"]
  ELSE [frame |-> frame, returned |-> PyNone, raised |-> "TypeError"]

\* Frame.get
get == frame

\* Frame.get_delta with the operands exchanged.
get_delta_reversed(value) == value - frame

\* Frame.get_delta
get_delta(value) == frame - value

NoFrameCall == [op |-> "none", arg |-> PyNone, returned |-> PyNone, raised |-> "none"]

\* A call Frame.increase(amount) by the host.
Increase(amount) ==
  LET r == increase(amount) IN
  /\ r.frame \in (-MaxFrame)..MaxFrame
  /\ frame' = r.frame
  /\ frame_call' = [op |-> "increase", arg |-> amount,
                    returned |-> r.returned, raised |-> r.raised]

\* A call Frame.get() by the host.
Get ==
  /\ frame_call' = [op |-> "get", arg |-> PyNone, returned |-> PyInt(get), raised |-> "none"]
  /\ UNCHANGED frame

\* A call Frame.get_delta(value) by the host, value an integer.
GetDelta(value) ==
  /\ frame_call' = [op |-> "get_delta", arg |-> PyInt(value),
                    returned |-> PyInt(get_delta(value)), raised |-> "none"]
  /\ UNCHANGED frame

\* A call Display.tick_frame(increase_frame) by the host: Frame.increase, its
\* result dropped.
DisplayTickFrame(increase_frame) ==
  LET r == increase(increase_frame) IN
  /\ r.frame \in (-MaxFrame)..MaxFrame
  /\ frame' = r.frame
  /\ frame_call' = [op |-> "tick_frame", arg |-> increase_frame,
                    returned |-> PyNone, raised |-> r.raised]

\* Display.tick_frame(): Frame.increase(1), once per rendered frame.
TickFrame ==
  /\ frame < MaxFrame
  /\ DisplayTickFrame(PyInt(1))

\* -------------------------------------------------------------------- Bar
\* The Bar instances, in construction order (Bar.save_bars).
Bars == {1, 2}
save_bars == <<1, 2>>

\* Bar._bar_id: a class attribute, evaluated once while the class body runs,
\* when bar_id_counter is still 0; __post_init__ never assigns it.
bar_id(b) == 0

\* The value_range a bar can be constructed with.
ValueRanges == {<<0, MaxValue>>}
\* The values a caller asks for: inside value_range and just outside it.
ReqValues == (-1)..(MaxValue + 1)
Deltas == ((-MaxDelta)..MaxDelta) \ {0}

\* The bar part of the state, as one value the methods transform.
BarState == [dr |-> display_range, sf |-> bar_starting_frame, mb |-> moving_bars]

\* Bar.value
bar_value(st, b) == st.dr[b][2]

\* Bar.target_range
target_range(st, b) ==
  IF bar_id(b) \in DOMAIN st.mb
  THEN <<st.mb[bar_id(b)].goal, TRUE>>
  ELSE <<st.dr[b], FALSE>>

\* Bar.set_value without the clamp of line 1135: the requested value is used
\* as it is given.
set_value_unclamped(st, b, value, set_instant, set_bottom) ==
  LET sv == value
      id == bar_id(b)
      current_goal == IF id \in DOMAIN st.mb THEN st.mb[id].goal ELSE st.dr[b]
  IN  IF ~set_bottom
      THEN IF bar_value(st, b) # sv
           THEN IF ~set_instant
                THEN [st EXCEPT
                        !.mb = DictPut(st.mb, id,
                                 [goal |-> <<current_goal[1], sv>>, set_bottom |-> set_bottom]),
                        !.sf[b] = frame]
                ELSE [st EXCEPT !.dr[b][2] = sv]
           ELSE st
      ELSE IF st.dr[b][1] # sv
           THEN IF ~set_instant
                THEN [st EXCEPT
                        !.mb = DictPut(st.mb, id,
                                 [goal |-> <<sv, current_goal[2]>>, set_bottom |-> set_bottom]),
                        !.sf[b] = frame]
                ELSE [st EXCEPT !.dr[b][1] = sv]
           ELSE st

\* Bar.set_value with set_instant ignored: every request is registered as an
\* animated goal and display_range is left to the steps.
set_value_deferred(st, b, value, set_instant, set_bottom) ==
  LET sv == Min2(Max2(value, value_range[b][1]), value_range[b][2])
      id == bar_id(b)
      current_goal == IF id \in DOMAIN st.mb THEN st.mb[id].goal ELSE st.dr[b]
  IN  IF ~set_bottom
      THEN IF bar_value(st, b) # sv
           THEN [st EXCEPT
                   !.mb = DictPut(st.mb, id,
                            [goal |-> <<current_goal[1], sv>>, set_bottom |-> set_bottom]),
                   !.sf[b] = frame]
           ELSE st
      ELSE IF st.dr[b][1] # sv
           THEN [st EXCEPT
                   !.mb = DictPut(st.mb, id,
                            [goal |-> <<sv, current_goal[2]>>, set_bottom |-> set_bottom]),
                   !.sf[b] = frame]
           ELSE st

\* Bar.set_value without the comparisons of lines 1142 and 1149: a request
\* equal to the displayed edge is handled like any other.
set_value_unconditional(st, b, value, set_instant, set_bottom) ==
  LET sv == Min2(Max2(value, value_range[b][1]), value_range[b][2])
      id == bar_id(b)
      current_goal == IF id \in DOMAIN st.mb THEN st.mb[id].goal ELSE st.dr[b]
  IN  IF ~set_bottom
      THEN IF TRUE
           THEN IF ~set_instant
                THEN [st EXCEPT
                        !.mb = DictPut(st.mb, id,
                                 [goal |-> <<current_goal[1], sv>>, set_bottom |-> set_bottom]),
                        !.sf[b] = frame]
                ELSE [st EXCEPT !.dr[b][2] = sv]
           ELSE st
      ELSE IF TRUE
           THEN IF ~set_instant
                THEN [st EXCEPT
                        !.mb = DictPut(st.mb, id,
                                 [goal |-> <<sv, current_goal[2]>>, set_bottom |-> set_bottom]),
                        !.sf[b] = frame]
                ELSE [st EXCEPT !.dr[b][1] = sv]
           ELSE st

\* Bar.set_value that, with an animated goal, also writes the goal recorded
\* for the other edge into display_range.
set_value_committing(st, b, value, set_instant, set_bottom) ==
  LET sv == Min2(Max2(value, value_range[b][1]), value_range[b][2])
      id == bar_id(b)
      current_goal == IF id \in DOMAIN st.mb THEN st.mb[id].goal ELSE st.dr[b]
  IN  IF ~set_bottom
      THEN IF bar_value(st, b) # sv
           THEN IF ~set_instant
                THEN [st EXCEPT
                        !.mb = DictPut(st.mb, id,
                                 [goal |-> <<current_goal[1], sv>>, set_bottom |-> set_bottom]),
                        !.sf[b] = frame,
                        !.dr[b][1] = current_goal[1]]
                ELSE [st EXCEPT !.dr[b][2] = sv]
           ELSE st
      ELSE IF st.dr[b][1] # sv
           THEN IF ~set_instant
                THEN [st EXCEPT
                        !.mb = DictPut(st.mb, id,
                                 [goal |-> <<sv, current_goal[2]>>, set_bottom |-> set_bottom]),
                        !.sf[b] = frame,
                        !.dr[b][2] = current_goal[2]]
                ELSE [st EXCEPT !.dr[b][1] = sv]
           ELSE st

\* Bar.set_value
set_value(st, b, value, set_instant, set_bottom) ==
  LET sv == Min2(Max2(value, value_range[b][1]), value_range[b][2])
      id == bar_id(b)
      current_goal == IF id \in DOMAIN st.mb THEN st.mb[id].goal ELSE st.dr[b]
  IN  IF ~set_bottom
      THEN IF bar_value(st, b) # sv
           THEN IF ~set_instant
                THEN [st EXCEPT
                        !.mb = DictPut(st.mb, id,
                                 [goal |-> <<current_goal[1], sv>>, set_bottom |-> set_bottom]),
                        !.sf[b] = frame]
                ELSE [st EXCEPT !.dr[b][2] = sv]
           ELSE st
      ELSE IF st.dr[b][1] # sv
           THEN IF ~set_instant
                THEN [st EXCEPT
                        !.mb = DictPut(st.mb, id,
                                 [goal |-> <<sv, current_goal[2]>>, set_bottom |-> set_bottom]),
                        !.sf[b] = frame]
                ELSE [st EXCEPT !.dr[b][1] = sv]
           ELSE st

\* Bar.modify_value
modify_value(st, b, value, set_instant, set_bottom) ==
  IF bar_id(b) \notin DOMAIN st.mb
  THEN IF ~set_bottom
       THEN set_value(st, b, st.dr[b][2] + value, set_instant, set_bottom)
       ELSE set_value(st, b, st.dr[b][1] + value, set_instant, set_bottom)
  ELSE IF ~set_bottom
       THEN set_value(st, b, st.mb[bar_id(b)].goal[2] + value, set_instant, set_bottom)
       ELSE set_value(st, b, st.mb[bar_id(b)].goal[1] + value, set_instant, set_bottom)

\* step_size of Bar.process_bar_movement, in model units:
\* Frame.get_delta(starting_frame) / display_fps * time_to_use.
bar_step_size(st, b) == (get_delta(st.sf[b]) * TimeToUse * Scale) \div DisplayFps

\* Bar.process_bar_movement without the abs(d_value) < step_size branches: the
\* edge is always moved by the whole step_size.
process_bar_movement_unsnapped(st, b) ==
  LET id == bar_id(b) IN
  IF id \notin DOMAIN st.mb THEN st
  ELSE
    LET entry == st.mb[id]
        target_value == IF ~entry.set_bottom THEN entry.goal[2] ELSE entry.goal[1]
        step_size == bar_step_size(st, b)
    IN  IF bar_value(st, b) = target_value
        THEN [st EXCEPT !.mb = DictPop(st.mb, id)]
        ELSE IF ~entry.set_bottom
             THEN IF bar_value(st, b) < target_value
                  THEN [st EXCEPT !.dr[b][2] = @ + step_size]
                  ELSE [st EXCEPT !.dr[b][2] = @ - step_size]
             ELSE IF st.dr[b][1] < target_value
                  THEN [st EXCEPT !.dr[b][1] = @ + step_size]
                  ELSE [st EXCEPT !.dr[b][1] = @ - step_size]

\* Bar.process_bar_movement
process_bar_movement(st, b) ==
  LET id == bar_id(b) IN
  IF id \notin DOMAIN st.mb THEN st
  ELSE
    LET entry == st.mb[id]
        target_value == IF ~entry.set_bottom THEN entry.goal[2] ELSE entry.goal[1]
        step_size == bar_step_size(st, b)
    IN  IF bar_value(st, b) = target_value
        THEN [st EXCEPT !.mb = DictPop(st.mb, id)]
        ELSE IF ~entry.set_bottom
             THEN LET d_value == bar_value(st, b) - target_value IN
                  IF Abs(d_value) < step_size
                  THEN [st EXCEPT !.dr[b][2] = target_value]
                  ELSE IF bar_value(st, b) < target_value
                       THEN [st EXCEPT !.dr[b][2] = @ + step_size]
                       ELSE [st EXCEPT !.dr[b][2] = @ - step_size]
             ELSE LET d_value == st.dr[b][1] - target_value IN
                  IF Abs(d_value) < step_size
                  THEN [st EXCEPT !.dr[b][1] = target_value]
                  ELSE IF st.dr[b][1] < target_value
                       THEN [st EXCEPT !.dr[b][1] = @ + step_size]
                       ELSE [st EXCEPT !.dr[b][1] = @ - step_size]

\* The loop of Bar.process_all_bar_movement over the snapshot of the keys.
RECURSIVE bar_pass(_, _)
bar_pass(st, ids) ==
  IF ids = {} THEN st
  ELSE LET id == CHOOSE i \in ids : \A j \in ids : i <= j
       IN  bar_pass(process_bar_movement(st, save_bars[id + 1]), ids \ {id})

\* Bar.process_all_bar_movement
process_all_bar_movement(st) == bar_pass(st, DOMAIN st.mb)

BarAssign(st) ==
  /\ display_range' = st.dr
  /\ bar_starting_frame' = st.sf
  /\ moving_bars' = st.mb

\* Whether an animated goal for the given edge of b is pending and not reached.
EdgePending(st, b, set_bottom) ==
  /\ bar_id(b) \in DOMAIN st.mb
  /\ st.mb[bar_id(b)].set_bottom = set_bottom
  /\ st.mb[bar_id(b)].goal[IF set_bottom THEN 1 ELSE 2] # st.dr[b][IF set_bottom THEN 1 ELSE 2]

\* A call b.set_value(value, set_instant, set_bottom) by the host.
SetValue(b, value, set_instant, set_bottom) ==
  /\ BarAssign(set_value(BarState, b, value, set_instant, set_bottom))
  /\ UNCHANGED <<frame_vars, value_range, tr_vars, anim_vars>>

\* A call b.modify_value(value, set_instant, set_bottom) by the host.
ModifyValue(b, value, set_instant, set_bottom) ==
  /\ BarAssign(modify_value(BarState, b, value, set_instant, set_bottom))
  /\ UNCHANGED <<frame_vars, value_range, tr_vars, anim_vars>>

\* A call b.process_bar_movement() by the host.
ProcessBarMovement(b) ==
  /\ BarAssign(process_bar_movement(BarState, b))
  /\ UNCHANGED <<frame_vars, value_range, tr_vars, anim_vars>>

\* A call Bar.process_all_bar_movement() by the host (once per frame).
ProcessAllBarMovement ==
  /\ BarAssign(process_all_bar_movement(BarState))
  /\ UNCHANGED <<frame_vars, value_range, tr_vars, anim_vars>>

\* History of the calls: set by an animated set_value on an edge whose animated
\* goal is pending and not reached (a re-targeting), cleared by any other call.
NoRetarget == [bar |-> 0, set_bottom |-> FALSE, value |-> 0]

Retargeting(b, value, set_instant, set_bottom) ==
  IF ~set_instant /\ EdgePending(BarState, b, set_bottom)
  THEN [bar |-> b, set_bottom |-> set_bottom, value |-> value]
  ELSE NoRetarget

\* History of the calls: the method and arguments of the host's last call, and
\* whether, when it was made, an animated goal was pending and not reached on
\* the edge it names (pending) or on the other edge (other_pending), and
\* whether the bar had an entry in moving_bars (registered).
NoCall ==
  [op |-> "none", value |-> 0, set_instant |-> FALSE, set_bottom |-> FALSE,
   pending |-> FALSE, other_pending |-> FALSE, registered |-> FALSE]

Calling(op, b, value, set_instant, set_bottom) ==
  [op |-> op, value |-> value, set_instant |-> set_instant, set_bottom |-> set_bottom,
   pending |-> EdgePending(BarState, b, set_bottom),
   other_pending |-> EdgePending(BarState, b, ~set_bottom),
   registered |-> bar_id(b) \in DOMAIN moving_bars]

\* ------------------------------------------------------------- Transition
Transitions == {1, 2}

\* The constructor arguments a Transition is built with: the example of the
\* specification (span 200 x 100 in 2 seconds), a slow one with a base size,
\* and a slow one whose base width is larger than the width of its x_range.
TransitionConfigs ==
  { [base_size |-> <<0, 0>>, x_range |-> <<0, 200>>, y_range |-> <<0, 100>>, time_to_use |-> 2],
    [base_size |-> <<1, 1>>, x_range |-> <<0, 4>>, y_range |-> <<1, 3>>, time_to_use |-> 120],
    [base_size |-> <<3, 0>>, x_range |-> <<0, 2>>, y_range |-> <<0, 2>>, time_to_use |-> 120] }

\* int(): truncation toward zero of the quotient n / d, d > 0.
IntTrunc(n, d) == IF n >= 0 THEN n \div d ELSE -((-n) \div d)

x_span(tr) == tr.x_range[2] - tr.x_range[1]
y_span(tr) == tr.y_range[2] - tr.y_range[1]

\* One axis of Transition.process_transition:
\* min(max(base, int(span * transition_fraction)), span), with
\* transition_fraction = (Frame.get() - starting_frame) / time_to_use * display_fps.
grown_size(tr, base, span) ==
  Min2(Max2(base, IntTrunc(span * (frame - tr.starting_frame) * DisplayFps, tr.time_to_use)), span)

\* list.remove(x): the first element equal to x goes; a dataclass compares by fields.
RECURSIVE remove_equal(_, _, _)
remove_equal(ts, run, t) ==
  IF run = <<>> THEN run
  ELSE IF ts[Head(run)] = ts[t] THEN Tail(run)
       ELSE <<Head(run)>> \o remove_equal(ts, Tail(run), t)

\* Transition.process_transition on the state st = [ts, run, advanced, fired].
process_transition(st, t) ==
  LET tr == st.ts[t]
      size == <<grown_size(tr, tr.base_size[1], x_span(tr)),
                grown_size(tr, tr.base_size[2], y_span(tr))>>
      ts2 == [st.ts EXCEPT ![t].current_size = size]
      done == size[1] = x_span(tr) /\ size[2] = y_span(tr)
  IN  [ts |-> ts2,
       run |-> IF done THEN remove_equal(ts2, st.run, t) ELSE st.run,
       advanced |-> Append(st.advanced, t),
       fired |-> IF done /\ tr.post_transition_call THEN Append(st.fired, t) ELSE st.fired]

\* The for loop of Transition.process_running_transitions: the list iterator
\* keeps an index into the live list and stops when the index passes its end.
RECURSIVE tr_pass(_, _)
tr_pass(st, i) ==
  IF i > Len(st.run) THEN st
  ELSE tr_pass(process_transition(st, st.run[i]), i + 1)

\* Transition.process_running_transitions
process_running_transitions(ts, run) ==
  tr_pass([ts |-> ts, run |-> run, advanced |-> <<>>, fired |-> <<>>], 1)

\* A call t.start_transition() by the host.
StartTransition(t) ==
  /\ Len(tr_running_animations) < MaxRunning
  /\ transitions' = [transitions EXCEPT ![t].starting_frame = frame]
  /\ tr_running_animations' = Append(tr_running_animations, t)
  /\ tr_advanced' = <<>>
  /\ tr_fired' = <<>>
  /\ UNCHANGED frame_vars

\* A call Transition.process_running_transitions() by the host (once per frame).
ProcessRunningTransitions ==
  LET st == process_running_transitions(transitions, tr_running_animations) IN
  /\ transitions' = st.ts
  /\ tr_running_animations' = st.run
  /\ tr_advanced' = st.advanced
  /\ tr_fired' = st.fired
  /\ UNCHANGED frame_vars

\* Construction: current_size starts on base_size, starting_frame on the class
\* default (Frame.get() when the class body ran: 0).
TransitionInit(configs) ==
  /\ transitions \in
       [Transitions ->
          { [base_size |-> c.base_size, current_size |-> c.base_size,
             x_range |-> c.x_range, y_range |-> c.y_range,
             time_to_use |-> c.time_to_use, starting_frame |-> 0,
             post_transition_call |-> TRUE] : c \in configs }]
  /\ tr_running_animations = <<>>
  /\ tr_advanced = <<>>
  /\ tr_fired = <<>>

\* -------------------------------------------------------- ObjectAnimation
\* process_animation and execute name the nested class by its bare name
\* `Action`; the model takes that name as bound to ObjectAnimation.Action (in
\* a host that does not bind it, every process_animation call raises NameError
\* before it changes anything).
SCALE == 0
SCALE_TO == 1
MOVE == 2
MOVE_TO == 3
CHANGE_CORNER_RADIUS == 4
CHANGE_CORNER_RADIUS_TO == 5
CHANGE_OBJECT == 6

Animations == {1}
ObjIds == {1, 2}

\* The objects as constructed (Rect instances), before any animation ran.
InitialObjects ==
  <<[x |-> 0, y |-> 0, width |-> 1, height |-> 1, corner_radius_all |-> 0],
    [x |-> 1, y |-> 1, width |-> 2, height |-> 2, corner_radius_all |-> 1]>>

\* The trace attribute of an animated object: the shapes of the library
\* (Rect, Ellipse, Image) define none, so reading it raises AttributeError.
obj_trace(o) == "absent"

\* The (action, kwargs) pairs a sequence is built from.
ActionPool ==
  { [action |-> MOVE_TO, kwargs |-> [x |-> 2, time |-> 2]],
    [action |-> SCALE_TO, kwargs |-> [width |-> 3, height |-> 0, time |-> 2]],
    [action |-> CHANGE_CORNER_RADIUS_TO, kwargs |-> [radius |-> 2, time |-> 1]],
    [action |-> MOVE, kwargs |-> [y |-> 2, time |-> 2]],
    [action |-> SCALE, kwargs |-> [width |-> -1, time |-> 0]],
    [action |-> CHANGE_CORNER_RADIUS, kwargs |-> [radius |-> 1]],
    [action |-> CHANGE_OBJECT, kwargs |-> [index |-> 1]] }

\* The action_sequence an ObjectAnimation can be constructed with.
ActionSequences ==
  UNION { [1..n -> ActionPool] : n \in 0..MaxActions }

Has(kwargs, key) == key \in DOMAIN kwargs

\* The keys of kwargs that Action.execute reads for each action, besides time.
ActionKeys(action) ==
  CASE action \in {SCALE, SCALE_TO} -> {"width", "height"}
    [] action \in {MOVE, MOVE_TO} -> {"x", "y"}
    [] action \in {CHANGE_CORNER_RADIUS, CHANGE_CORNER_RADIUS_TO} -> {"radius"}
    [] action = CHANGE_OBJECT -> {"index"}

\* Every action with every subset of its keys, with and without a time.
UsagePool ==
  UNION { { [action |-> action, kwargs |-> [key \in keys \cup tm |-> 1]] :
              keys \in SUBSET ActionKeys(action), tm \in SUBSET {"time"} } :
          action \in SCALE..CHANGE_OBJECT }

\* Such an action alone, or behind an action that takes two frames or none.
UsageSequences ==
  { <<p>> : p \in UsagePool }
    \cup { <<q, p>> : q \in {r \in ActionPool : r.action \in {MOVE, SCALE}}, p \in UsagePool }

NoError == "none"

\* Action.execute on the objects objs (the heap), the list objects of the
\* animation, the index into it and start_time; the result is
\* [objs, wait_time, has_index, object_index, err].
execute(objs, animation_objects, index, start_time, action, kwargs) ==
  LET result(o, w, hi, oi, e) ==
        [objs |-> o, wait_time |-> w, has_index |-> hi, object_index |-> oi, err |-> e]
  IN
  IF index + 1 \notin DOMAIN animation_objects
  THEN result(objs, 0, FALSE, 0, "IndexError")
  ELSE
  LET cur == animation_objects[index + 1]
      wait_time == IF Has(kwargs, "time") THEN kwargs.time ELSE 0
      transform_factor ==
        IF Has(kwargs, "time") THEN Max2(start_time + wait_time - frame, 1) ELSE 1
      \* attribute += delta // transform_factor, for each key given
      add(o, key, attr) ==
        IF Has(kwargs, key)
        THEN [o EXCEPT ![cur][attr] = @ + (kwargs[key] \div transform_factor)]
        ELSE o
      \* delta = attribute - kwargs[key]; attribute += delta // transform_factor
      to(o, key, attr) ==
        IF Has(kwargs, key)
        THEN [o EXCEPT ![cur][attr] = @ + ((@ - kwargs[key]) \div transform_factor)]
        ELSE o
  IN
  CASE action = SCALE ->
         IF ~Has(kwargs, "width") /\ ~Has(kwargs, "height")
         THEN result(objs, wait_time, FALSE, 0, "KeyError")
         ELSE result(add(add(objs, "width", "width"), "height", "height"),
                     wait_time, FALSE, 0, NoError)
    [] action = SCALE_TO ->
         IF ~Has(kwargs, "width") /\ ~Has(kwargs, "height")
         THEN result(objs, wait_time, FALSE, 0, "KeyError")
         ELSE result(to(to(objs, "width", "width"), "height", "height"),
                     wait_time, FALSE, 0, NoError)
    [] action = MOVE ->
         IF ~Has(kwargs, "x") /\ ~Has(kwargs, "y")
         THEN result(objs, wait_time, FALSE, 0, "KeyError")
         ELSE result(add(add(objs, "x", "x"), "y", "y"), wait_time, FALSE, 0, NoError)
    [] action = MOVE_TO ->
         IF ~Has(kwargs, "x") /\ ~Has(kwargs, "y")
         THEN result(objs, wait_time, FALSE, 0, "KeyError")
         ELSE result(to(to(objs, "x", "x"), "y", "y"), wait_time, FALSE, 0, NoError)
    [] action = CHANGE_CORNER_RADIUS ->
         IF ~Has(kwargs, "radius")
         THEN result(objs, wait_time, FALSE, 0, "KeyError")
         ELSE result(add(objs, "radius", "corner_radius_all"), wait_time, FALSE, 0, NoError)
    [] action = CHANGE_CORNER_RADIUS_TO ->
         IF ~Has(kwargs, "radius")
         THEN result(objs, wait_time, FALSE, 0, "KeyError")
         ELSE result(to(objs, "radius", "corner_radius_all"), wait_time, FALSE, 0, NoError)
    [] action = CHANGE_OBJECT ->
         IF ~Has(kwargs, "index")
         THEN result(objs, wait_time, FALSE, 0, "KeyError")
         ELSE IF obj_trace(cur) = "absent"
              THEN result(objs, wait_time, FALSE, 0, "AttributeError")
              ELSE IF obj_trace(cur) = "true"
                   THEN IF kwargs.index + 1 \notin DOMAIN animation_objects
                        THEN result(objs, wait_time, FALSE, 0, "IndexError")
                        ELSE LET new == animation_objects[kwargs.index + 1] IN
                             result([objs EXCEPT ![new].width = objs[cur].width,
                                                 ![new].height = objs[cur].height],
                                    wait_time, TRUE, kwargs.index, NoError)
                   ELSE result(objs, wait_time, TRUE, kwargs.index, NoError)
    [] OTHER -> result(objs, wait_time, FALSE, 0, NoError)

\* ObjectAnimation.start without the membership test.
start_unguarded(run, a) == Append(run, a)

\* ObjectAnimation.start, on the list
start(run, a) ==
  IF ~InList(run, a) THEN Append(run, a) ELSE run

\* ObjectAnimation.stop, on the list
stop(run, a) ==
  IF InList(run, a) THEN RemoveFirst(run, a) ELSE run

\* ObjectAnimation.process_animation with the index counted on where the
\* sequence has ended, in place of the IndexError.
RECURSIVE process_animation_past_end(_, _)
process_animation_past_end(st, a) ==
  LET an == st.an[a] IN
  IF an.action_index + 1 \notin DOMAIN an.action_sequence
  THEN [st EXCEPT !.an[a].action_index = @ + 1]
  ELSE
  LET current_action == an.action_sequence[an.action_index + 1]
      r == execute(st.objs, an.animation_objects, an.object_index,
                   an.start_action_frame, current_action.action, current_action.kwargs)
  IN
  \* execute(objects, index, start_time, action, **kwargs): a key of kwargs that
  \* names one of the positional parameters makes the call itself a TypeError.
  IF DOMAIN current_action.kwargs \cap {"objects", "index", "start_time", "action"} # {}
  THEN [st EXCEPT !.err = "TypeError"]
  ELSE
  IF r.err # NoError THEN [st EXCEPT !.err = r.err]
  ELSE
  LET an1 == IF r.has_index THEN [an EXCEPT !.object_index = r.object_index] ELSE an
      st1 == [st EXCEPT !.an[a] = an1, !.objs = r.objs,
                        !.executed = Append(@, <<a, an.action_index>>)]
  IN
  IF frame >= an1.next_frame
  THEN LET an2 == [an1 EXCEPT !.start_action_frame = frame,
                              !.next_frame = frame + r.wait_time,
                              !.action_index = @ + 1]
           st2 == [st1 EXCEPT !.an[a] = an2]
       IN  IF an2.action_index > Len(an2.action_sequence)
           THEN [st2 EXCEPT !.run = stop(st2.run, a)]
           ELSE IF r.wait_time <= 0
                THEN process_animation_past_end(st2, a)
                ELSE st2
  ELSE st1

\* ObjectAnimation.process_animation with the exception of Action.execute
\* caught and dropped.
RECURSIVE process_animation_swallowing(_, _)
process_animation_swallowing(st, a) ==
  LET an == st.an[a] IN
  IF an.action_index + 1 \notin DOMAIN an.action_sequence
  THEN [st EXCEPT !.err = "IndexError"]
  ELSE
  LET current_action == an.action_sequence[an.action_index + 1]
      r == execute(st.objs, an.animation_objects, an.object_index,
                   an.start_action_frame, current_action.action, current_action.kwargs)
  IN
  \* execute(objects, index, start_time, action, **kwargs): a key of kwargs that
  \* names one of the positional parameters makes the call itself a TypeError.
  IF DOMAIN current_action.kwargs \cap {"objects", "index", "start_time", "action"} # {}
  THEN [st EXCEPT !.err = "TypeError"]
  ELSE
  IF r.err # NoError THEN st
  ELSE
  LET an1 == IF r.has_index THEN [an EXCEPT !.object_index = r.object_index] ELSE an
      st1 == [st EXCEPT !.an[a] = an1, !.objs = r.objs,
                        !.executed = Append(@, <<a, an.action_index>>)]
  IN
  IF frame >= an1.next_frame
  THEN LET an2 == [an1 EXCEPT !.start_action_frame = frame,
                              !.next_frame = frame + r.wait_time,
                              !.action_index = @ + 1]
           st2 == [st1 EXCEPT !.an[a] = an2]
       IN  IF an2.action_index > Len(an2.action_sequence)
           THEN [st2 EXCEPT !.run = stop(st2.run, a)]
           ELSE IF r.wait_time <= 0
                THEN process_animation_swallowing(st2, a)
                ELSE st2
  ELSE st1

\* ObjectAnimation.process_animation with the window tested before the action
\* is carried out: a call that finds the window over moves on to the next
\* action and leaves the active one unexecuted.
RECURSIVE process_animation_skipping(_, _)
process_animation_skipping(st, a) ==
  LET an == st.an[a] IN
  IF an.action_index + 1 \notin DOMAIN an.action_sequence
  THEN [st EXCEPT !.err = "IndexError"]
  ELSE
  LET current_action == an.action_sequence[an.action_index + 1]
      r == execute(st.objs, an.animation_objects, an.object_index,
                   an.start_action_frame, current_action.action, current_action.kwargs)
  IN
  IF DOMAIN current_action.kwargs \cap {"objects", "index", "start_time", "action"} # {}
  THEN [st EXCEPT !.err = "TypeError"]
  ELSE
  IF r.err # NoError THEN [st EXCEPT !.err = r.err]
  ELSE
  LET an1 == IF r.has_index THEN [an EXCEPT !.object_index = r.object_index] ELSE an
      st1 == [st EXCEPT !.an[a] = an1, !.objs = r.objs,
                        !.executed = Append(@, <<a, an.action_index>>)]
  IN
  IF frame >= an.next_frame
  THEN LET an2 == [an EXCEPT !.start_action_frame = frame,
                             !.next_frame = frame + r.wait_time,
                             !.action_index = @ + 1]
           st2 == [st EXCEPT !.an[a] = an2]
       IN  IF an2.action_index > Len(an2.action_sequence)
           THEN [st2 EXCEPT !.run = stop(st2.run, a)]
           ELSE IF r.wait_time <= 0
                THEN process_animation_skipping(st2, a)
                ELSE st2
  ELSE st1

\* ObjectAnimation.process_animation on the state
\* st = [an (the animations), objs, run (running_animations), err, executed
\* (the calls of Action.execute that returned, as <<sequencer, action_index>>)].
RECURSIVE process_animation(_, _)
process_animation(st, a) ==
  LET an == st.an[a] IN
  IF an.action_index + 1 \notin DOMAIN an.action_sequence
  THEN [st EXCEPT !.err = "IndexError"]
  ELSE
  LET current_action == an.action_sequence[an.action_index + 1]
      r == execute(st.objs, an.animation_objects, an.object_index,
                   an.start_action_frame, current_action.action, current_action.kwargs)
  IN
  \* execute(objects, index, start_time, action, **kwargs): a key of kwargs that
  \* names one of the positional parameters makes the call itself a TypeError.
  IF DOMAIN current_action.kwargs \cap {"objects", "index", "start_time", "action"} # {}
  THEN [st EXCEPT !.err = "TypeError"]
  ELSE
  IF r.err # NoError THEN [st EXCEPT !.err = r.err]
  ELSE
  LET an1 == IF r.has_index THEN [an EXCEPT !.object_index = r.object_index] ELSE an
      st1 == [st EXCEPT !.an[a] = an1, !.objs = r.objs,
                        !.executed = Append(@, <<a, an.action_index>>)]
  IN
  IF frame >= an1.next_frame
  THEN LET an2 == [an1 EXCEPT !.start_action_frame = frame,
                              !.next_frame = frame + r.wait_time,
                              !.action_index = @ + 1]
           st2 == [st1 EXCEPT !.an[a] = an2]
       IN  IF an2.action_index > Len(an2.action_sequence)
           THEN [st2 EXCEPT !.run = stop(st2.run, a)]
           ELSE IF r.wait_time <= 0
                THEN process_animation(st2, a)
                ELSE st2
  ELSE st1

\* The for loop of ObjectAnimation.update_animations: an exception ends it.
RECURSIVE anim_pass(_, _)
anim_pass(st, i) ==
  IF i > Len(st.run) \/ st.err # NoError THEN st
  ELSE anim_pass(process_animation(st, st.run[i]), i + 1)

\* A pass that advances the first sequencer constructed, registered or not.
update_animations_unregistered(an, objs, run) ==
  process_animation([an |-> an, objs |-> objs, run |-> run, err |-> NoError,
                     executed |-> <<>>], 1)

\* ObjectAnimation.update_animations
update_animations(an, objs, run) ==
  anim_pass([an |-> an, objs |-> objs, run |-> run, err |-> NoError,
             executed |-> <<>>], 1)

\* The indices in seen followed by the indices that the executions ex, pairs
\* <<sequencer, action_index>> in the order of the calls of Action.execute,
\* hold for sequencer a and that are not in seen yet.
RECURSIVE first_executed(_, _, _)
first_executed(seen, ex, a) ==
  IF ex = <<>> THEN seen
  ELSE first_executed(IF Head(ex)[1] = a /\ ~InList(seen, Head(ex)[2])
                      THEN Append(seen, Head(ex)[2]) ELSE seen,
                      Tail(ex), a)

\* The record of a call by the host on sequencer a (0: on the class).
NoAnimCall == [op |-> "none", a |-> 0, registered |-> FALSE]
AnimCalling(op, a) ==
  [op |-> op, a |-> a, registered |-> InList(anim_running_animations, a)]

\* A call a.start() by the host.
Start(a) ==
  /\ anim_running_animations' = start(anim_running_animations, a)
  /\ anim_raised' = NoError
  /\ anim_call' = AnimCalling("start", a)
  /\ UNCHANGED <<frame_vars, animations, objects, anim_updated, anim_executed>>

\* A call a.stop() by the host.
Stop(a) ==
  /\ anim_running_animations' = stop(anim_running_animations, a)
  /\ anim_raised' = NoError
  /\ anim_call' = AnimCalling("stop", a)
  /\ UNCHANGED <<frame_vars, animations, objects, anim_updated, anim_executed>>

\* A call a.reset() by the host: the objects list is rebound to a copy of the
\* list saved at construction; the objects in it are the same objects.
Reset(a) ==
  /\ anim_running_animations' = stop(anim_running_animations, a)
  /\ animations' = [animations EXCEPT
                      ![a].action_index = 0,
                      ![a].object_index = 0,
                      ![a].start_action_frame = 0,
                      ![a].next_frame = 0,
                      ![a].animation_objects = animations[a].start_object_setting]
  /\ anim_raised' = NoError
  /\ anim_call' = AnimCalling("reset", a)
  /\ anim_executed' = [anim_executed EXCEPT ![a] = <<>>]
  /\ UNCHANGED <<frame_vars, objects, anim_updated>>

\* A call ObjectAnimation.update_animations() by the host, once per frame.
UpdateAnimations ==
  /\ ~anim_updated
  /\ LET st == update_animations(animations, objects, anim_running_animations) IN
       /\ animations' = st.an
       /\ objects' = st.objs
       /\ anim_running_animations' = st.run
       /\ anim_raised' = st.err
       /\ anim_executed' = [a \in Animations |-> first_executed(anim_executed[a], st.executed, a)]
  /\ anim_call' = AnimCalling("update_animations", 0)
  /\ anim_updated' = TRUE
  /\ UNCHANGED frame_vars

\* ObjectAnimation.__init__
AnimationInit(sequences) ==
  /\ animations \in
       [Animations ->
          { [action_sequence |-> seq, animation_objects |-> <<1, 2>>,
             start_object_setting |-> <<1, 2>>, trace |-> TRUE,
             action_index |-> 0, object_index |-> 0,
             start_action_frame |-> 0, next_frame |-> 0] : seq \in sequences }]
  /\ objects = InitialObjects
  /\ anim_running_animations = <<>>
  /\ anim_raised = NoError
  /\ anim_call = NoAnimCall
  /\ anim_updated = FALSE
  /\ anim_executed = [a \in Animations |-> <<>>]

\* Frame._frame as the class body leaves it.
FrameInit ==
  /\ frame = 0
  /\ frame_call = NoFrameCall

BarInit(ranges) ==
  /\ value_range \in [Bars -> ranges]
  /\ display_range = value_range
  /\ bar_starting_frame = [b \in Bars |-> 0]
  /\ moving_bars = EmptyDict
  /\ retarget = NoRetarget
  /\ last_call = NoCall

\* Each specification constructs the widgets of one kind with every
\* configuration and leaves the other kinds in one configuration, unused.
DefaultRange == <<0, MaxValue>>
DefaultConfig == CHOOSE c \in TransitionConfigs : c.time_to_use = 2

InitBar ==
  /\ FrameInit
  /\ BarInit(ValueRanges)
  /\ TransitionInit({DefaultConfig})
  /\ AnimationInit({<<>>})

InitTransition ==
  /\ FrameInit
  /\ BarInit({DefaultRange})
  /\ TransitionInit(TransitionConfigs)
  /\ AnimationInit({<<>>})

InitAnimation ==
  /\ FrameInit
  /\ BarInit({DefaultRange})
  /\ TransitionInit({DefaultConfig})
  /\ AnimationInit(ActionSequences)

InitAnimationUsage ==
  /\ FrameInit
  /\ BarInit({DefaultRange})
  /\ TransitionInit({DefaultConfig})
  /\ AnimationInit(UsageSequences)

BarTick == TickFrame /\ UNCHANGED <<bar_vars, tr_vars, anim_vars>>

\* One bar driven by the host loop, as in testing.py, with the history kept.
NextBar ==
  \/ BarTick
  \/ ProcessAllBarMovement /\ UNCHANGED <<retarget, last_call>>
  \/ ProcessBarMovement(1) /\ UNCHANGED <<retarget, last_call>>
  \/ \E value \in ReqValues, set_instant \in BOOLEAN, set_bottom \in BOOLEAN :
       /\ SetValue(1, value, set_instant, set_bottom)
       /\ retarget' = Retargeting(1, value, set_instant, set_bottom)
       /\ UNCHANGED last_call
  \/ \E value \in Deltas, set_instant \in BOOLEAN, set_bottom \in BOOLEAN :
       /\ ModifyValue(1, value, set_instant, set_bottom)
       /\ retarget' = NoRetarget
       /\ UNCHANGED last_call

SpecBar == InitBar /\ [][NextBar]_vars

\* One bar driven by the host loop, with the last call kept.
NextBarCalls ==
  \/ BarTick
  \/ ProcessAllBarMovement /\ UNCHANGED <<retarget, last_call>>
  \/ ProcessBarMovement(1) /\ UNCHANGED <<retarget, last_call>>
  \/ \E value \in ReqValues, set_instant \in BOOLEAN, set_bottom \in BOOLEAN :
       /\ SetValue(1, value, set_instant, set_bottom)
       /\ last_call' = Calling("set_value", 1, value, set_instant, set_bottom)
       /\ UNCHANGED retarget
  \/ \E value \in Deltas, set_instant \in BOOLEAN, set_bottom \in BOOLEAN :
       /\ ModifyValue(1, value, set_instant, set_bottom)
       /\ last_call' = Calling("modify_value", 1, value, set_instant, set_bottom)
       /\ UNCHANGED retarget

SpecBarCalls == InitBar /\ [][NextBarCalls]_vars

\* One bar constructed with value_range[0] == value_range[1] and display_range
\* left to default to it, driven by the host loop with the last call kept.
FlatRange == <<1, 1>>

InitBarFlat ==
  /\ FrameInit
  /\ BarInit({FlatRange})
  /\ TransitionInit({DefaultConfig})
  /\ AnimationInit({<<>>})

SpecBarFlat == InitBarFlat /\ [][NextBarCalls]_vars

\* One bar whose host calls set_value only, with the last call kept.
NextBarSetValue ==
  \/ BarTick
  \/ ProcessAllBarMovement /\ UNCHANGED <<retarget, last_call>>
  \/ \E value \in ReqValues, set_instant \in BOOLEAN, set_bottom \in BOOLEAN :
       /\ SetValue(1, value, set_instant, set_bottom)
       /\ last_call' = Calling("set_value", 1, value, set_instant, set_bottom)
       /\ UNCHANGED retarget

SpecBarSetValue == InitBar /\ [][NextBarSetValue]_vars

\* Two bars driven by the same host loop.
NextTwoBars ==
  \/ BarTick
  \/ ProcessAllBarMovement /\ UNCHANGED <<retarget, last_call>>
  \/ \E b \in Bars : ProcessBarMovement(b) /\ UNCHANGED <<retarget, last_call>>
  \/ \E b \in Bars, value \in ReqValues, set_instant \in BOOLEAN, set_bottom \in BOOLEAN :
       SetValue(b, value, set_instant, set_bottom) /\ UNCHANGED <<retarget, last_call>>
  \/ \E b \in Bars, value \in Deltas, set_instant \in BOOLEAN, set_bottom \in BOOLEAN :
       ModifyValue(b, value, set_instant, set_bottom) /\ UNCHANGED <<retarget, last_call>>

SpecTwoBars == InitBar /\ [][NextTwoBars]_vars

\* One bar driven by the loop of testing.py, one iteration per frame:
\* Display.tick_frame(), then at most one animated set_value from a key
\* event, then update_window with its Bar.process_all_bar_movement(). The
\* last call by the host is kept in last_call.
LoopCalling(op) == Calling(op, 1, 0, FALSE, FALSE)

LoopTick ==
  /\ last_call.op \in {"none", "process_all_bar_movement"}
  /\ TickFrame
  /\ last_call' = LoopCalling("tick_frame")
  /\ UNCHANGED <<value_range, display_range, bar_starting_frame, moving_bars,
                 retarget, tr_vars, anim_vars>>

LoopSetValue(value, set_bottom) ==
  /\ last_call.op = "tick_frame"
  /\ SetValue(1, value, FALSE, set_bottom)
  /\ last_call' = Calling("set_value", 1, value, FALSE, set_bottom)
  /\ UNCHANGED retarget

LoopPass ==
  /\ last_call.op \in {"tick_frame", "set_value"}
  /\ ProcessAllBarMovement
  /\ last_call' = LoopCalling("process_all_bar_movement")
  /\ UNCHANGED retarget

NextBarLoop ==
  \/ LoopTick
  \/ \E value \in ReqValues, set_bottom \in BOOLEAN : LoopSetValue(value, set_bottom)
  \/ LoopPass

SpecBarLoop == InitBar /\ [][NextBarLoop]_vars

\* Two transitions driven by the host loop.
TransitionTick == TickFrame /\ UNCHANGED <<bar_vars, tr_vars, anim_vars>>

NextTransition ==
  \/ TransitionTick
  \/ ProcessRunningTransitions /\ UNCHANGED <<bar_vars, anim_vars>>
  \/ \E t \in Transitions : StartTransition(t) /\ UNCHANGED <<bar_vars, anim_vars>>

SpecTransition == InitTransition /\ [][NextTransition]_vars

\* The frame counter driven by the host: any call on Frame, and tick_frame with
\* any argument.
InitFrame ==
  /\ FrameInit
  /\ BarInit({DefaultRange})
  /\ TransitionInit({DefaultConfig})
  /\ AnimationInit({<<>>})

NextFrame ==
  \/ \E amount \in FrameIntegers \cup FrameNonIntegers :
       Increase(amount) /\ UNCHANGED <<bar_vars, tr_vars, anim_vars>>
  \/ \E amount \in FrameIntegers \cup FrameNonIntegers :
       DisplayTickFrame(amount) /\ UNCHANGED <<bar_vars, tr_vars, anim_vars>>
  \/ Get /\ UNCHANGED <<bar_vars, tr_vars, anim_vars>>
  \/ \E value \in (-MaxIncrease)..MaxIncrease :
       GetDelta(value) /\ UNCHANGED <<bar_vars, tr_vars, anim_vars>>

SpecFrame == InitFrame /\ [][NextFrame]_vars

\* One sequencer driven by the host loop.
AnimationTick ==
  /\ TickFrame
  /\ anim_updated' = FALSE
  /\ UNCHANGED <<bar_vars, tr_vars, animations, objects, anim_running_animations,
                 anim_raised, anim_call, anim_executed>>

NextAnimation ==
  \/ AnimationTick
  \/ UpdateAnimations /\ UNCHANGED <<bar_vars, tr_vars>>
  \/ \E a \in Animations : Start(a) /\ UNCHANGED <<bar_vars, tr_vars>>
  \/ \E a \in Animations : Stop(a) /\ UNCHANGED <<bar_vars, tr_vars>>
  \/ \E a \in Animations : Reset(a) /\ UNCHANGED <<bar_vars, tr_vars>>

SpecAnimation == InitAnimation /\ [][NextAnimation]_vars

\* One sequencer whose actions come with every combination of keys.
SpecAnimationUsage == InitAnimationUsage /\ [][NextAnimation]_vars

\* A host that runs the three scheduler passes in every frame and uses the
\* widgets of one kind at a time: a call that activates a widget is made
\* while the widgets of the other two kinds are as constructed.
IdleSequence == << [action |-> MOVE, kwargs |-> [y |-> 2, time |-> 2]] >>

BarsUnused == moving_bars = EmptyDict /\ display_range = value_range

TransitionsUnused ==
  /\ tr_running_animations = <<>>
  /\ \A t \in Transitions : transitions[t].current_size = transitions[t].base_size

AnimationsUnused ==
  /\ anim_running_animations = <<>>
  /\ objects = InitialObjects
  /\ \A a \in Animations : animations[a].action_index = 0

InitPasses ==
  /\ FrameInit
  /\ BarInit({DefaultRange})
  /\ TransitionInit({DefaultConfig})
  /\ AnimationInit({IdleSequence})

NextPasses ==
  \/ AnimationTick
  \/ ProcessAllBarMovement /\ UNCHANGED <<retarget, last_call>>
  \/ ProcessRunningTransitions /\ UNCHANGED <<bar_vars, anim_vars>>
  \/ UpdateAnimations /\ UNCHANGED <<bar_vars, tr_vars>>
  \/ \E value \in ReqValues, set_instant \in BOOLEAN, set_bottom \in BOOLEAN :
       /\ TransitionsUnused /\ AnimationsUnused
       /\ SetValue(1, value, set_instant, set_bottom)
       /\ UNCHANGED <<retarget, last_call>>
  \/ \E t \in Transitions :
       /\ BarsUnused /\ AnimationsUnused
       /\ StartTransition(t) /\ UNCHANGED <<bar_vars, anim_vars>>
  \/ \E a \in Animations :
       /\ BarsUnused /\ TransitionsUnused
       /\ Start(a) /\ UNCHANGED <<bar_vars, tr_vars>>
  \/ \E a \in Animations : Stop(a) /\ UNCHANGED <<bar_vars, tr_vars>>

SpecPasses == InitPasses /\ [][NextPasses]_vars

\* ------------------------------------------------------------ Bar claims
Clamp(value, range) == Min2(Max2(value, range[1]), range[2])

\* C1: a bar's bottom edge never lies above its top edge, in every state the
\* host can drive one bar into (any set_value / modify_value, ticks, steps).
C1_BottomLeTop == display_range[1][1] <= display_range[1][2]

\* C2: once the animation has completed (the bar has left moving_bars) after an
\* animated set_value(v2) that re-targeted a pending, unreached edge, that edge
\* lies on clamp(v2, value_range).
C2_RetargetSettlesOnSecond ==
  (retarget.bar # 0 /\ bar_id(retarget.bar) \notin DOMAIN moving_bars)
    => display_range[retarget.bar][IF retarget.set_bottom THEN 1 ELSE 2]
         = Clamp(retarget.value, value_range[retarget.bar])

\* C3: a bar with a pending goal leaves moving_bars only on an edited edge that
\* equals its goal (the edge reaches the goal, and only then is it deregistered).
C3_RemovedOnlyOnGoal ==
  [][\A id \in DOMAIN moving_bars :
       id \notin DOMAIN moving_bars'
         => LET entry == moving_bars[id]
                edge == IF entry.set_bottom THEN 1 ELSE 2
            IN  display_range'[save_bars[id + 1]][edge] = entry.goal[edge]]_vars

\* C10: a set_value / modify_value call on one bar changes neither another
\* bar's display_range nor the pending goal that other bar reports.
C10_OtherBarUntouched ==
  [][\A a \in Bars, b \in Bars :
       (a # b /\ \E set_instant \in BOOLEAN, set_bottom \in BOOLEAN :
                    \/ \E value \in ReqValues : SetValue(a, value, set_instant, set_bottom)
                    \/ \E value \in Deltas : ModifyValue(a, value, set_instant, set_bottom))
         => /\ display_range'[b] = display_range[b]
            /\ target_range(BarState, b)' = target_range(BarState, b)]_vars

\* v lies between lo and hi, whichever of the two is the larger.
Between(lo, v, hi) == Min2(lo, hi) <= v /\ v <= Max2(lo, hi)

\* The index in display_range and in a goal of the edge a call names.
Edge(set_bottom) == IF set_bottom THEN 1 ELSE 2

\* C11: after set_value(v, set_instant=True) on an edge whose animated goal was
\* pending, and until the next call, moving_bars holds no goal for that edge and
\* the edge stays on clamp(v, value_range) whatever steps are taken.
C11_InstantClearsGoal ==
  (last_call.op = "set_value" /\ last_call.set_instant /\ last_call.pending)
    => /\ ~(bar_id(1) \in DOMAIN moving_bars
             /\ moving_bars[bar_id(1)].set_bottom = last_call.set_bottom)
       /\ display_range[1][Edge(last_call.set_bottom)]
            = Clamp(last_call.value, value_range[1])

\* C12: when an animated goal is set on one edge while the other edge's animated
\* goal is pending and not reached, a pass at a later frame steps both edges:
\* each edge that is off its goal moves.
C12_BothEdgesStepped ==
  [][(/\ ProcessAllBarMovement
      /\ last_call.op = "set_value" /\ ~last_call.set_instant /\ last_call.other_pending
      /\ bar_id(1) \in DOMAIN moving_bars
      /\ moving_bars[bar_id(1)].goal[Edge(last_call.set_bottom)]
           = Clamp(last_call.value, value_range[1])
      /\ frame > bar_starting_frame[1]
      /\ \A e \in 1..2 : display_range[1][e] # moving_bars[bar_id(1)].goal[e])
       => \A e \in 1..2 : display_range'[1][e] # display_range[1][e]]_vars

\* C13: an animated modify_value(d2) on the edge whose goal, left by an animated
\* modify_value(d1), is still in moving_bars, with no clamping, leaves the
\* pending goal of that edge at the former pending goal + d2.
C13_ModifyAddsToGoal ==
  [][\A d2 \in Deltas, set_bottom \in BOOLEAN :
       LET id == bar_id(1)
           e == Edge(set_bottom)
       IN  (/\ last_call.op = "modify_value" /\ ~last_call.set_instant
            /\ last_call.set_bottom = set_bottom
            /\ id \in DOMAIN moving_bars
            /\ moving_bars[id].set_bottom = set_bottom
            /\ moving_bars[id].goal[e] + d2 \in value_range[1][1]..value_range[1][2]
            /\ ModifyValue(1, d2, FALSE, set_bottom)
            /\ last_call' = Calling("modify_value", 1, d2, FALSE, set_bottom))
             => /\ id \in DOMAIN moving_bars'
                /\ moving_bars'[id].goal[e] = moving_bars[id].goal[e] + d2]_vars

\* C16: both edges of the bar, and both entries of the goal recorded for it in
\* moving_bars, lie within value_range in every state.
C16_WithinValueRange ==
  LET InRange(v) == value_range[1][1] <= v /\ v <= value_range[1][2] IN
  /\ \A e \in 1..2 : InRange(display_range[1][e])
  /\ bar_id(1) \in DOMAIN moving_bars
       => \A e \in 1..2 : InRange(moving_bars[bar_id(1)].goal[e])

\* An animated request above value_range has re-targeted an edge that was under
\* way: its goal is the upper bound and the edge is not there yet.
C16_ClampedGoalPending ==
  /\ retarget.bar = 1
  /\ retarget.value > value_range[1][2]
  /\ bar_id(1) \in DOMAIN moving_bars
  /\ moving_bars[bar_id(1)].goal[Edge(retarget.set_bottom)] = value_range[1][2]
  /\ display_range[1][Edge(retarget.set_bottom)] # value_range[1][2]

\* C17: a step that leaves the bar's goal pending leaves the edited edge between
\* its previous value and the goal, and on the goal exactly when the remaining
\* distance is at most step_size.
C17_StepTowardGoal ==
  [][LET id == bar_id(1) IN
     (/\ ProcessAllBarMovement \/ ProcessBarMovement(1)
      /\ id \in DOMAIN moving_bars
      /\ id \in DOMAIN moving_bars')
       => LET e == Edge(moving_bars[id].set_bottom)
              goal == moving_bars[id].goal[e]
          IN  /\ Between(display_range[1][e], display_range'[1][e], goal)
              /\ Abs(display_range[1][e] - goal) <= bar_step_size(BarState, 1)
                   => display_range'[1][e] = goal]_vars

\* Since the animated call that re-targeted an edge off its goal only steps have
\* been taken, and the edge lies on the goal of that call.
C17_LandedOnGoal ==
  /\ retarget.bar = 1
  /\ bar_id(1) \in DOMAIN moving_bars
  /\ moving_bars[bar_id(1)].set_bottom = retarget.set_bottom
  /\ moving_bars[bar_id(1)].goal[Edge(retarget.set_bottom)]
       = Clamp(retarget.value, value_range[1])
  /\ display_range[1][Edge(retarget.set_bottom)]
       = Clamp(retarget.value, value_range[1])

\* C18: a call set_value(v, set_instant=True) leaves the edge it names on
\* clamp(v, value_range).
C18_InstantWritesClamp ==
  [][\A value \in ReqValues, set_bottom \in BOOLEAN :
       SetValue(1, value, TRUE, set_bottom)
         => display_range'[1][Edge(set_bottom)] = Clamp(value, value_range[1])]_vars

\* Before the first frame tick no step moves an edge (step_size is 0): both
\* edges have been written by instant calls.
C18_WrittenWithoutSteps ==
  /\ frame = 0
  /\ moving_bars = EmptyDict
  /\ display_range[1] = <<MaxValue - 1, MaxValue - 1>>

\* The step is the call bar 1 .set_value(value, set_instant, set_bottom) that
\* the record call describes.
SetValueCalled(call) ==
  /\ call.op = "set_value"
  /\ call = Calling("set_value", 1, call.value, call.set_instant, call.set_bottom)
  /\ SetValue(1, call.value, call.set_instant, call.set_bottom)

\* C28: an animated set_value(v) on a bar that has no entry in moving_bars,
\* with clamp(v, value_range) equal to the displayed value of the edge it names,
\* changes neither display_range nor moving_bars nor starting_frame.
C28_EqualRequestIsNoOp ==
  [][LET call == last_call' IN
     (/\ SetValueCalled(call)
      /\ ~call.set_instant
      /\ bar_id(1) \notin DOMAIN moving_bars
      /\ Clamp(call.value, value_range[1]) = display_range[1][Edge(call.set_bottom)])
       => /\ display_range' = display_range
          /\ moving_bars' = moving_bars
          /\ bar_starting_frame' = bar_starting_frame]_vars

\* Before the first tick (no step moves an edge) the edges have been written by
\* instant calls, and the host's last call was an animated set_value of the
\* displayed value on an unregistered bar: nothing is registered.
C28_EqualRequestMade ==
  /\ frame = 0
  /\ last_call.op = "set_value" /\ ~last_call.set_instant /\ ~last_call.registered
  /\ Clamp(last_call.value, value_range[1]) = display_range[1][Edge(last_call.set_bottom)]
  /\ display_range[1][Edge(last_call.set_bottom)] # value_range[1][Edge(last_call.set_bottom)]
  /\ moving_bars = EmptyDict

\* C29: a set_value call leaves the displayed value of the edge it does not
\* name as it was, and with set_instant=False it leaves display_range as it
\* was (also when it re-targets an edge that is under way).
C29_OnlySelectedEdgeWritten ==
  [][LET call == last_call' IN
     SetValueCalled(call)
       => /\ display_range'[1][Edge(~call.set_bottom)]
               = display_range[1][Edge(~call.set_bottom)]
          /\ ~call.set_instant => display_range' = display_range]_vars

\* The host's last call, in this frame, was an animated set_value that gave a
\* new goal to an edge whose goal was pending: the edge is off both ends of
\* value_range and off the new goal.
C29_RetargetedUnderWay ==
  LET e == Edge(last_call.set_bottom) IN
  /\ last_call.op = "set_value" /\ ~last_call.set_instant /\ last_call.pending
  /\ frame > 0 /\ bar_starting_frame[1] = frame
  /\ bar_id(1) \in DOMAIN moving_bars
  /\ moving_bars[bar_id(1)].goal[e] = Clamp(last_call.value, value_range[1])
  /\ display_range[1][e] \notin {value_range[1][1], value_range[1][2],
                                  moving_bars[bar_id(1)].goal[e]}

\* ----------------------------------------------------- Transition claims
Count(seq, e) == Cardinality({i \in DOMAIN seq : seq[i] = e})
InSeq(seq, e) == \E i \in DOMAIN seq : seq[i] = e

\* C4: one scheduler pass over an active set (each entry registered once)
\* advances every entry that is in it when the pass starts exactly once, also
\* when entries deregister during the pass.
C4_PassAdvancesEachOnce ==
  [][(ProcessRunningTransitions
        /\ \A t \in Transitions : Count(tr_running_animations, t) <= 1)
       => \A t \in Transitions :
            InSeq(tr_running_animations, t) => Count(tr_advanced', t) = 1]_vars

\* C7: the advance that invokes a transition's completion callback leaves that
\* transition out of running_animations, so no later pass invokes it again.
C7_FiredThenDeregistered ==
  [][ProcessRunningTransitions
       => \A t \in Transitions :
            InSeq(tr_fired', t) => ~InSeq(tr_running_animations', t)]_vars

\* C8: a transition's current_size becomes its full span only on an advance at
\* which the elapsed frames have reached time_to_use seconds x ticks per second.
C8_FullSpanOnlyAfterDuration ==
  [][\A t \in Transitions :
       LET span == <<x_span(transitions[t]), y_span(transitions[t])>> IN
       (transitions[t].current_size # span /\ transitions'[t].current_size = span)
         => frame' - transitions'[t].starting_frame
              >= transitions[t].time_to_use * DisplayFps]_vars

\* C14: whatever start_transition calls are made, each transition is in
\* running_animations at most once and a pass advances it at most once.
C14_RegisteredOnce ==
  \A t \in Transitions :
    /\ Count(tr_running_animations, t) <= 1
    /\ Count(tr_advanced, t) <= 1

\* ------------------------------------------------- ObjectAnimation claims
AbsoluteActions == {SCALE_TO, MOVE_TO, CHANGE_CORNER_RADIUS_TO}
Attribute(key) == IF key = "radius" THEN "corner_radius_all" ELSE key

\* C5: under a sequence of one absolute action of duration >= 1, each targeted
\* attribute of the first object stays between its starting value and the
\* requested value (it moves toward the requested value and never past it).
C5_AbsoluteActionApproaches ==
  \A a \in Animations :
    LET seq == animations[a].action_sequence IN
    (Len(seq) = 1 /\ seq[1].action \in AbsoluteActions
       /\ Has(seq[1].kwargs, "time") /\ seq[1].kwargs.time >= 1)
      => \A key \in DOMAIN seq[1].kwargs \ {"time"} :
           Between(InitialObjects[1][Attribute(key)],
                   objects[1][Attribute(key)], seq[1].kwargs[key])

C15_EmptySequenceTerminal ==
  [][\A a \in Animations :
       (UpdateAnimations /\ InList(anim_running_animations, a)
          /\ Len(animations[a].action_sequence) = 0)
         => /\ anim_raised' = NoError
            /\ ~InList(anim_running_animations', a)
            /\ animations'[a].action_index = 0]_vars

RelativeActions == {SCALE, MOVE, CHANGE_CORNER_RADIUS}

\* C19: under a sequence of one relative action of duration >= 1, the advance
\* that consumes the action leaves each targeted attribute of the animated
\* object on its value at the start of the action plus the requested delta.
C19_RelativeActionTotal ==
  [][\A a \in Animations :
       LET seq == animations[a].action_sequence
           obj == animations[a].animation_objects[animations[a].object_index + 1]
       IN  (/\ UpdateAnimations
            /\ Len(seq) = 1 /\ seq[1].action \in RelativeActions
            /\ Has(seq[1].kwargs, "time") /\ seq[1].kwargs.time >= 1
            /\ animations[a].action_index = 0 /\ animations'[a].action_index = 1)
             => \A key \in DOMAIN seq[1].kwargs \ {"time"} :
                  objects'[obj][Attribute(key)]
                    = objects[obj][Attribute(key)] + seq[1].kwargs[key]]_vars

\* The duration of an action: its time argument, 0 when it has none.
Duration(act) == IF Has(act.kwargs, "time") THEN act.kwargs.time ELSE 0

C21_StartIdempotent ==
  \A a \in Animations :
    LET run == anim_running_animations IN
    /\ Count(run, a) <= 1
    /\ InList(run, a) => start(run, a) = run
    /\ start(start(run, a), a) = start(run, a)

\* The host's last call was start() on a sequencer that was registered, and
\* the sequencer is registered.
C21_StartedWhileRegistered ==
  /\ anim_call = [op |-> "start", a |-> 1, registered |-> TRUE]
  /\ InList(anim_running_animations, 1)

\* C22: action_index stays within 0..len(action_sequence) under start, stop,
\* reset and the advances, and an advance of a sequencer whose action_index
\* equals len(action_sequence) executes no action: no object and no field of
\* the sequencer changes.
C22_IndexWithinSequence ==
  /\ [](\A a \in Animations :
         /\ 0 <= animations[a].action_index
         /\ animations[a].action_index <= Len(animations[a].action_sequence))
  /\ [][\A a \in Animations :
          (/\ UpdateAnimations /\ InList(anim_running_animations, a)
           /\ animations[a].action_index = Len(animations[a].action_sequence))
            => objects' = objects /\ animations' = animations]_vars

\* The last action was consumed in an earlier frame, and the pass of this frame
\* has advanced the registered sequencer on its final index.
C22_AdvancedOnFinalIndex ==
  /\ anim_updated /\ anim_call.op = "update_animations"
  /\ InList(anim_running_animations, 1)
  /\ Len(animations[1].action_sequence) > 0
  /\ animations[1].action_index = Len(animations[1].action_sequence)
  /\ animations[1].start_action_frame < frame

\* The action lacks the parameter it needs: both keys of a two-parameter
\* action, radius, or index.
MissingParameter(act) == ActionKeys(act.action) \cap DOMAIN act.kwargs = {}

C24_ChangeObjectSwitches ==
  [][\A a \in Animations :
       LET an == animations[a]
           seq == an.action_sequence
           act == seq[an.action_index + 1]
           cur == an.animation_objects[an.object_index + 1]
           new == an.animation_objects[act.kwargs.index + 1]
       IN  (/\ UpdateAnimations /\ InList(anim_running_animations, a)
            /\ an.action_index + 1 = Len(seq)
            /\ act.action = CHANGE_OBJECT /\ Has(act.kwargs, "index"))
             => /\ animations'[a].object_index = act.kwargs.index
                /\ objects'[new] =
                     IF an.trace
                     THEN [objects[new] EXCEPT !.width = objects[cur].width,
                                               !.height = objects[cur].height]
                     ELSE objects[new]]_vars

\* C25: every transition a pass has advanced has base_size <= current_size and
\* current_size <= (width of x_range, width of y_range), on both axes.
C25_SizeWithinBaseAndSpan ==
  [][ProcessRunningTransitions
       => \A t \in Transitions :
            InSeq(tr_advanced', t)
              => LET tr == transitions'[t] IN
                 /\ tr.base_size[1] <= tr.current_size[1]
                 /\ tr.current_size[1] <= x_span(tr)
                 /\ tr.base_size[2] <= tr.current_size[2]
                 /\ tr.current_size[2] <= y_span(tr)]_vars

\* ----------------------------------------------------------- Frame claims
\* C26: no call of Frame.increase or Display.tick_frame with an integer the
\* call accepts leaves the counter lower than it was.
C26_FrameNeverDecreases ==
  [][\A amount \in FrameIntegers :
       (Increase(amount) \/ DisplayTickFrame(amount)) => frame' >= frame]_vars

\* C27: Frame.increase with a non-integer raises to the caller and leaves the
\* counter as it was.
C27_NonIntegerRaises ==
  [][\A amount \in FrameNonIntegers :
       Increase(amount)
         => /\ frame_call'.raised # "none"
            /\ frame' = frame]_vars

\* The counter has been moved off 0, and the host's last call, increase with a
\* non-integer, raised.
C27_RaisedOnNonInteger ==
  /\ frame # 0
  /\ frame_call.op = "increase" /\ ~IsInt(frame_call.arg)
  /\ frame_call.raised = "TypeError"

\* C30: Frame.increase(n) with an integer n leaves the counter on its former
\* value + n and returns that value; Frame.get() returns the counter and
\* Frame.get_delta(ref) returns the counter - ref, both leaving the counter as
\* it was.
C30_FrameArithmetic ==
  [][/\ \A amount \in FrameIntegers :
          Increase(amount)
            => /\ frame' = frame + amount.v
               /\ frame_call'.returned = PyInt(frame + amount.v)
               /\ frame_call'.raised = "none"
     /\ Get => (frame' = frame /\ frame_call'.returned = PyInt(frame))
     /\ \A value \in (-MaxIncrease)..MaxIncrease :
          GetDelta(value)
            => (frame' = frame /\ frame_call'.returned = PyInt(frame - value))]_vars

\* The host's last call, get_delta with a reference that is neither 0 nor the
\* counter, returned the difference, and the counter has been moved off 0 by
\* earlier increase calls.
C30_DeltaReturned ==
  /\ frame # 0
  /\ frame_call.op = "get_delta"
  /\ frame_call.arg.v \notin {0, frame}
  /\ frame_call.returned = PyInt(frame - frame_call.arg.v)

\* ------------------------------------------------------ Scheduler passes

\* C31: a scheduler pass over an empty active set does nothing: with no bar in
\* moving_bars, process_all_bar_movement leaves every bar's shown range, start
\* frame and the registry as they are; with no sequencer in running_animations,
\* update_animations raises nothing and leaves sequencers, targets and the
\* list as they are; with no transition in running_animations,
\* process_running_transitions advances nothing, fires nothing and leaves
\* transitions and the list as they are.
C31_EmptyPassIsNoOp ==
  /\ moving_bars = EmptyDict =>
       process_all_bar_movement(BarState) = BarState
  /\ anim_running_animations = <<>> =>
       LET st == update_animations(animations, objects, anim_running_animations)
       IN  /\ st.err = NoError
           /\ st.an = animations
           /\ st.objs = objects
           /\ st.run = <<>>
  /\ tr_running_animations = <<>> =>
       LET st == process_running_transitions(transitions, tr_running_animations)
       IN  /\ st.ts = transitions
           /\ st.run = <<>>
           /\ st.advanced = <<>>
           /\ st.fired = <<>>

\* update_animations has just run over an empty list, after the sequencer was
\* stopped part-way, while no bar and no transition is active either.
C31_PassedOverEmptySets ==
  /\ anim_updated
  /\ anim_call.op = "update_animations"
  /\ anim_raised = NoError
  /\ anim_running_animations = <<>>
  /\ objects # InitialObjects
  /\ moving_bars = EmptyDict
  /\ tr_running_animations = <<>>
  /\ frame > 0

\* ------------------------------------------------- Bar animation length

\* The configured duration in frames: time_to_use x display_fps.
DurationInFrames == TimeToUse * DisplayFps

\* The pass of this step has put the edge of the pending goal on that goal.
LandsOnGoal ==
  /\ last_call' = LoopCalling("process_all_bar_movement")
  /\ bar_id(1) \in DOMAIN moving_bars
  /\ LET e == Edge(moving_bars[bar_id(1)].set_bottom) IN
       /\ display_range[1][e] # moving_bars[bar_id(1)].goal[e]
       /\ display_range'[1][e] = moving_bars[bar_id(1)].goal[e]

\* C32: with one process_all_bar_movement call per frame tick, the call that
\* puts the animated edge on its goal is call number time_to_use x display_fps
\* since the set_value that started the animation (the calls are those of the
\* frames starting_frame .. current frame).
C32_LandsAfterDuration ==
  [][LandsOnGoal => frame - bar_starting_frame[1] + 1 = DurationInFrames]_vars

\* ------------------------------------------- ObjectAnimation action windows

\* C33: the sequencer advances past an action only when that action's own
\* duration has elapsed since it became the active action: a pass that moves a
\* registered sequencer on from action k happens at least Duration(action k)
\* frames after start_action_frame, the frame at which action k became active.
C33_ActiveForOwnDuration ==
  [][\A a \in Animations :
       LET an == animations[a] IN
       (/\ UpdateAnimations /\ InList(anim_running_animations, a)
        /\ an.action_index < Len(an.action_sequence)
        /\ animations'[a].action_index > an.action_index)
         => frame - an.start_action_frame
              >= Duration(an.action_sequence[an.action_index + 1])]_vars

ExecutedInPass(a) ==
  LET ex == SelectSeq(update_animations(animations, objects,
                                        anim_running_animations).executed,
                      LAMBDA e : e[1] = a)
  IN  [i \in DOMAIN ex |-> ex[i][2]]

\* C35: actions are executed in list order with none skipped. The actions
\* executed since construction or the last reset() are, in the order of their
\* first execution, the actions 0, 1, 2, ... of the list; every action before
\* action_index is among them, so all of them are once action_index equals the
\* length of the list. action_index decreases only in reset(). A pass executes
\* for a registered sequencer the actions action_index, action_index + 1, ...
\* one after the other and leaves action_index on the last one executed or
\* one past it.
C35_ExecutedInListOrder ==
  /\ [](\A a \in Animations :
         LET an == animations[a] IN
         /\ \A i \in DOMAIN anim_executed[a] : anim_executed[a][i] = i - 1
         /\ Len(anim_executed[a]) >= an.action_index
         /\ an.action_index = Len(an.action_sequence)
              => Len(anim_executed[a]) = Len(an.action_sequence))
  /\ [][\A a \in Animations :
          /\ animations'[a].action_index < animations[a].action_index
               => anim_call' = AnimCalling("reset", a)
          /\ (UpdateAnimations /\ InList(anim_running_animations, a))
               => LET ex == ExecutedInPass(a) IN
                  /\ \A i \in DOMAIN ex : ex[i] = animations[a].action_index + i - 1
                  /\ animations'[a].action_index - animations[a].action_index
                       \in {Len(ex) - 1, Len(ex)} \cap Nat]_vars

\* The pass has executed a zero-duration action and, in the same call, the
\* action behind it, and has left the sequencer on the length of its list; the
\* sequencer had been reset before.
C35_ExecutedAllAfterReset ==
  LET an == animations[1] IN
  /\ anim_updated /\ anim_call.op = "update_animations" /\ anim_raised = NoError
  /\ Len(an.action_sequence) = 2
  /\ Duration(an.action_sequence[1]) = 0
  /\ an.action_sequence[2].action = MOVE
  /\ an.action_index = 2
  /\ an.start_action_frame = frame
  /\ anim_executed[1] = <<0, 1>>
  /\ frame > 0
  /\ objects[1].width < InitialObjects[1].width - 1

\* ------------------------------------------------ Bar with a one-point range

\* C36: a bar whose value_range is a single point, constructed with the
\* default display_range, keeps display_range on that point and is never in
\* moving_bars, whatever set_value and modify_value calls are made on it.
C36_FlatBarNeverMoves ==
  \A b \in {1} :
    value_range[b][1] = value_range[b][2]
      => /\ display_range[b] = value_range[b]
         /\ bar_id(b) \notin DOMAIN moving_bars

\* The last call on the one-point bar was an animated request for a value
\* other than the point, made after frames had passed.
C36_AnimatedRequestOffThePoint ==
  /\ value_range[1] = FlatRange
  /\ last_call.op \in {"set_value", "modify_value"}
  /\ ~last_call.set_instant
  /\ last_call.value = 2
  /\ frame > 0

====
